---- MODULE Spec2Model ----
(***************************************************************************)
(* Entropy-based random number generator: the collector (pointer,          *)
(* scheduler and microphone producers feeding bounded pools, the activity  *)
(* tracker), the sufficiency predicate and the SHA-256 mixing step, in the *)
(* command-line variant (entropy_rng.py) and the GUI variant               *)
(* (entropy_rng_gui.py).                                                   *)
(*                                                                         *)
(* Time: time.time() is read in whole seconds (the variable clock).        *)
(* TLC's integers are 32-bit signed, so every modelled reading and sample  *)
(* is kept below 2^31; the reductions the code applies (& 0xFFFF,          *)
(* & 0xFFFFFFFF, % 2**32, % 2048) are computed, not assumed.               *)
(***************************************************************************)
EXTENDS Integers, Sequences, FiniteSets, TLC

VARIABLES
    variant,            \* "cli": entropy_rng.py, "gui": entropy_rng_gui.py
    session,            \* the include_audio of the latest start_collection
    clock,              \* what time.time() returns now, in seconds
    collector,          \* the EntropyCollector object's fields
    generated_numbers,  \* EntropyRNG.generated_numbers
    listeners,          \* mouse.Listener threads started and not stopped
    callback,           \* the on_mouse_move call in flight, if any
    cpu_pc,             \* position of every collect_cpu_entropy thread
    audio_pc,           \* position of every collect_audio_entropy thread
    streams,            \* every PyAudio stream opened: its state
    call,               \* the consumer's call in flight (generation, status)
    ret,                \* what the consumer's last finished call did
    used                \* how much of each bound of the exploration is used

vars == <<variant, session, clock, collector, generated_numbers, listeners, callback,
          cpu_pc, audio_pc, streams, call, ret, used>>

-----------------------------------------------------------------------------
(* Bounds of the exploration *)

MaxClock == 36        \* last clock reading explored
MaxStarts == 2        \* start_collection() calls
MaxStops == 1         \* stop_collection() calls
MaxTicks == 2         \* clock advances between events
MaxStepBacks == 1     \* backward adjustments of the wall clock
MaxMoves == 2         \* single pointer callbacks
MaxCpuTicks == 2      \* single scheduler-loop iterations
MaxAudioReads == 2    \* single audio-loop iterations
MaxCalls == 2         \* consumer calls (generation, status, sufficiency)
MaxSteps == 4         \* single steps in all (the six kinds above)
MaxCount == 2         \* largest count passed to generate_random_numbers
MaxSweeps == 3        \* runs of uninterrupted pointer callbacks
MaxCpuRuns == 1       \* runs of uninterrupted scheduler-loop iterations
MaxAudioRuns == 2     \* runs of uninterrupted audio-loop iterations

-----------------------------------------------------------------------------
(* Python values *)

None == <<>>
Some(v) == <<v>>
Val(o) == o[1]

Min(a, b) == IF a <= b THEN a ELSE b

\* a ^ b on non-negative integers
RECURSIVE Xor(_, _)
Xor(a, b) ==
    IF a = 0 THEN b
    ELSE IF b = 0 THEN a
    ELSE 2 * Xor(a \div 2, b \div 2) + (((a % 2) + (b % 2)) % 2)

\* a & b on non-negative integers
RECURSIVE And(_, _)
And(a, b) ==
    IF a = 0 \/ b = 0 THEN 0
    ELSE 2 * And(a \div 2, b \div 2) + ((a % 2) * (b % 2))

Mask16 == 65535

\* v & 0xFFFFFFFF and v % (2**32): the low 32 bits, taken 16 bits at a time
\* because 2^32 is not a TLC integer
Low32(v) == (v % 65536) + 65536 * ((v \div 65536) % 65536)

\* v.to_bytes(4, 'big') for 0 <= v < 2^31
to_bytes4(v) ==
    << (v \div 16777216) % 256, (v \div 65536) % 256, (v \div 256) % 256, v % 256 >>

\* int.from_bytes(bs, 'big') % m, reduced digit by digit (Horner) so that no
\* intermediate value leaves TLC's integers; m <= 2^23
RECURSIVE from_bytes_mod(_, _)
from_bytes_mod(bs, m) ==
    IF Len(bs) = 0 THEN 0
    ELSE (from_bytes_mod(SubSeq(bs, 1, Len(bs) - 1), m) * 256 + bs[Len(bs)]) % m

\* str(n).encode() for n >= 0: the ASCII decimal digits
RECURSIVE str_encode(_)
str_encode(n) ==
    IF n < 10 THEN << 48 + n >>
    ELSE Append(str_encode(n \div 10), 48 + (n % 10))

-----------------------------------------------------------------------------
(* collections.deque(maxlen=2000) *)

maxlen == 2000

\* a deque that, once full, drops its newest value instead of its oldest
deque_append_drop_newest(d, v) ==
    IF Len(d) >= maxlen THEN Append(SubSeq(d, 1, Len(d) - 1), v) ELSE Append(d, v)

deque_append(d, v) ==
    IF Len(d) >= maxlen THEN Append(Tail(d), v) ELSE Append(d, v)

-----------------------------------------------------------------------------
(* EntropyCollector *)

mouse_activity_timeout == 2

\* EntropyCollector.__init__
NewCollector ==
    [ mouse_entropy |-> <<>>,
      cpu_entropy |-> <<>>,
      audio_entropy |-> <<>>,
      collecting |-> FALSE,
      entropy_queue |-> <<>>,
      collection_start_time |-> None,
      mouse_movement_start |-> None,
      last_mouse_activity |-> None,
      total_active_movement_time |-> 0,
      audio_recording |-> FALSE,
      audio_stream |-> None,
      mouse_listener |-> None ]

\* the sample with the time jitter subtracted instead of XORed in
mouse_sample_signed(x, y, timestamp, pool_len) ==
    LET entropy_data == And(Xor(Xor(x, y), Low32(timestamp)), Mask16)
        time_delta == (timestamp % 1000000) * 1000
    IN IF pool_len > 0 THEN entropy_data - time_delta ELSE entropy_data

\* on_mouse_move, the sample: (x ^ y ^ (timestamp & 0xFFFFFFFF)) & 0xFFFF,
\* then ^= int((timestamp % 1000000) * 1000) when the pool is not empty
mouse_sample(x, y, timestamp, pool_len) ==
    LET entropy_data == And(Xor(Xor(x, y), Low32(timestamp)), Mask16)
        time_delta == (timestamp % 1000000) * 1000
    IN IF pool_len > 0 THEN Xor(entropy_data, time_delta) ELSE entropy_data

\* the tracking with `<` for `<=`: a gap equal to the timeout is discarded
track_activity_strict(self, current_time) ==
    IF self.last_mouse_activity # None
    THEN LET time_since_last == current_time - Val(self.last_mouse_activity)
         IN IF time_since_last < mouse_activity_timeout
            THEN self.total_active_movement_time + time_since_last
            ELSE self.total_active_movement_time
    ELSE self.total_active_movement_time

\* on_mouse_move, the activity tracking: the new total_active_movement_time
track_activity(self, current_time) ==
    IF self.last_mouse_activity # None
    THEN LET time_since_last == current_time - Val(self.last_mouse_activity)
         IN IF time_since_last <= mouse_activity_timeout
            THEN self.total_active_movement_time + time_since_last
            ELSE self.total_active_movement_time
    ELSE self.total_active_movement_time

\* on_mouse_move past its `if self.collecting`, with the two clock readings
\* on_mouse_move that stops appending once the pool holds the 300 samples
\* the sufficiency predicate asks for
on_mouse_move_gated(self, x, y, timestamp, current_time) ==
    LET entropy_data == mouse_sample(x, y, timestamp, Len(self.mouse_entropy))
        enough == Len(self.mouse_entropy) >= 300
    IN [ self EXCEPT
           !.total_active_movement_time = track_activity(self, current_time),
           !.last_mouse_activity = Some(current_time),
           !.mouse_movement_start =
               IF self.mouse_movement_start = None THEN Some(current_time)
               ELSE self.mouse_movement_start,
           !.mouse_entropy =
               IF enough THEN self.mouse_entropy
               ELSE deque_append(self.mouse_entropy, entropy_data),
           !.entropy_queue =
               IF enough THEN self.entropy_queue
               ELSE Append(self.entropy_queue, <<"mouse", entropy_data>>) ]

\* on_mouse_move with a throttle: an event in the same second as the last
\* recorded one is tracked but adds no sample
on_mouse_move_throttled(self, x, y, timestamp, current_time) ==
    LET entropy_data == mouse_sample(x, y, timestamp, Len(self.mouse_entropy))
        throttled == self.last_mouse_activity = Some(current_time)
    IN [ self EXCEPT
           !.total_active_movement_time = track_activity(self, current_time),
           !.last_mouse_activity = Some(current_time),
           !.mouse_movement_start =
               IF self.mouse_movement_start = None THEN Some(current_time)
               ELSE self.mouse_movement_start,
           !.mouse_entropy =
               IF throttled THEN self.mouse_entropy
               ELSE deque_append(self.mouse_entropy, entropy_data),
           !.entropy_queue =
               IF throttled THEN self.entropy_queue
               ELSE Append(self.entropy_queue, <<"mouse", entropy_data>>) ]

on_mouse_move(self, x, y, timestamp, current_time) ==
    LET entropy_data == mouse_sample(x, y, timestamp, Len(self.mouse_entropy))
    IN [ self EXCEPT
           !.total_active_movement_time = track_activity(self, current_time),
           !.last_mouse_activity = Some(current_time),
           !.mouse_movement_start =
               IF self.mouse_movement_start = None THEN Some(current_time)
               ELSE self.mouse_movement_start,
           !.mouse_entropy = deque_append(self.mouse_entropy, entropy_data),
           !.entropy_queue = Append(self.entropy_queue, <<"mouse", entropy_data>>) ]

\* collect_cpu_entropy, the sample:
\* int((user * 1000000 + system * 1000000 + idle * 1000000
\*      + processes * time.time_ns()) % (2**32))
cpu_sample(user, system, idle, processes, timestamp) ==
    Low32(user * 1000000 + system * 1000000 + idle * 1000000
          + processes * timestamp)

\* one pass of collect_cpu_entropy's try block whose reads succeeded
collect_cpu_entropy(self, entropy_data) ==
    [ self EXCEPT
        !.cpu_entropy = deque_append(self.cpu_entropy, entropy_data),
        !.entropy_queue = Append(self.entropy_queue, <<"cpu", entropy_data>>) ]

\* collect_audio_entropy, the sample:
\* (rms ^ peak ^ (variance & 0xFFFF) ^ (timestamp & 0xFFFF)) & 0xFFFF
audio_sample(rms, peak, variance, timestamp) ==
    And(Xor(Xor(Xor(And(rms, Mask16), And(peak, Mask16)),
                And(Low32(variance), Mask16)),
            And(timestamp, Mask16)),
        Mask16)

\* one pass of collect_audio_entropy's inner try block that read a buffer
collect_audio_entropy(self, entropy_data) ==
    [ self EXCEPT
        !.audio_entropy = deque_append(self.audio_entropy, entropy_data),
        !.entropy_queue = Append(self.entropy_queue, <<"audio", entropy_data>>) ]

\* a start that leaves the activity tracker as it was
start_collection_keep(self, now, listener) ==
    [ self EXCEPT
        !.collecting = TRUE,
        !.collection_start_time = Some(now),
        !.mouse_listener = Some(listener) ]

\* start_collection, the fields it assigns (entropy_rng.py); listener is the
\* mouse.Listener it creates
start_collection(self, now, listener) ==
    [ self EXCEPT
        !.collecting = TRUE,
        !.collection_start_time = Some(now),
        !.mouse_movement_start = None,
        !.last_mouse_activity = None,
        !.total_active_movement_time = 0,
        !.mouse_listener = Some(listener) ]

\* start_collection(include_audio) of entropy_rng_gui.py
start_collection_gui(self, now, listener, include_audio) ==
    LET started == start_collection(self, now, listener)
    IN IF include_audio THEN [ started EXCEPT !.audio_recording = TRUE ]
       ELSE started

\* stop_collection, the fields it assigns (entropy_rng.py)
stop_collection(self) == [ self EXCEPT !.collecting = FALSE ]

\* stop_collection of entropy_rng_gui.py
stop_collection_gui(self) ==
    [ self EXCEPT !.collecting = FALSE, !.audio_recording = FALSE ]

\* get_entropy_pool (entropy_rng.py): pointer samples, then scheduler samples
get_entropy_pool(self) == self.mouse_entropy \o self.cpu_entropy

\* get_entropy_pool (entropy_rng_gui.py): then audio samples
get_entropy_pool_gui(self) ==
    self.mouse_entropy \o self.cpu_entropy \o self.audio_entropy

\* the duration without the live gap: only what the callbacks accumulated
get_mouse_movement_duration_settled(self, current_time) ==
    IF self.last_mouse_activity = None THEN 0
    ELSE self.total_active_movement_time

\* get_mouse_movement_duration, time.time() returning current_time
get_mouse_movement_duration(self, current_time) ==
    IF self.last_mouse_activity = None THEN 0
    ELSE IF current_time - Val(self.last_mouse_activity) <= mouse_activity_timeout
         THEN self.total_active_movement_time
              + (current_time - Val(self.last_mouse_activity))
         ELSE self.total_active_movement_time

\* the test with `<` for `<=`
is_mouse_currently_active_strict(self, current_time) ==
    IF self.last_mouse_activity = None THEN FALSE
    ELSE (current_time - Val(self.last_mouse_activity)) < mouse_activity_timeout

\* is_mouse_currently_active
is_mouse_currently_active(self, current_time) ==
    IF self.last_mouse_activity = None THEN FALSE
    ELSE (current_time - Val(self.last_mouse_activity)) <= mouse_activity_timeout

\* the default arguments of has_sufficient_entropy
required_duration == 30
min_mouse_samples == 300
min_audio_samples == 100

\* the predicate with `>` for the duration's `>=`
has_sufficient_entropy_longer(self, current_time) ==
    LET mouse_duration == get_mouse_movement_duration(self, current_time)
        mouse_samples == Len(self.mouse_entropy)
    IN mouse_duration > required_duration /\ mouse_samples >= min_mouse_samples

\* the predicate with `>` for the sample count's `>=`
has_sufficient_entropy_more(self, current_time) ==
    LET mouse_duration == get_mouse_movement_duration(self, current_time)
        mouse_samples == Len(self.mouse_entropy)
    IN mouse_duration >= required_duration /\ mouse_samples > min_mouse_samples

\* the predicate without its sample-count term
has_sufficient_entropy_any(self, current_time) ==
    LET mouse_duration == get_mouse_movement_duration(self, current_time)
    IN mouse_duration >= required_duration

\* has_sufficient_entropy (entropy_rng.py)
has_sufficient_entropy(self, current_time) ==
    LET mouse_duration == get_mouse_movement_duration(self, current_time)
        mouse_samples == Len(self.mouse_entropy)
    IN mouse_duration >= required_duration /\ mouse_samples >= min_mouse_samples

\* has_sufficient_entropy (entropy_rng_gui.py)
has_sufficient_entropy_gui(self, current_time) ==
    LET mouse_duration == get_mouse_movement_duration(self, current_time)
        mouse_samples == Len(self.mouse_entropy)
        audio_samples == Len(self.audio_entropy)
    IN /\ mouse_duration >= required_duration
       /\ mouse_samples >= min_mouse_samples
       /\ audio_samples >= min_audio_samples

-----------------------------------------------------------------------------
(* hashlib.sha256 and the mixing step of EntropyRNG *)

\* b''.join(chunks[lo..hi]), by halves
RECURSIVE join_bytes(_, _, _)
join_bytes(chunks, lo, hi) ==
    IF lo > hi THEN <<>>
    ELSE IF lo = hi THEN chunks[lo]
    ELSE LET mid == (lo + hi) \div 2
         IN join_bytes(chunks, lo, mid) \o join_bytes(chunks, mid + 1, hi)

\* the loop feeding only the low 16 bits of each sample, as 2 bytes
sample_bytes_low16(entropy_pool) ==
    LET chunks == [ j \in 1..Len(entropy_pool) |->
                      << (entropy_pool[j] \div 256) % 256, entropy_pool[j] % 256 >> ]
    IN join_bytes(chunks, 1, Len(entropy_pool))

\* what the `for sample in entropy_pool: hasher.update(sample.to_bytes(4, 'big'))`
\* loop feeds the hasher: 4 bytes per sample, in pool order
sample_bytes(entropy_pool) ==
    LET chunks == [ j \in 1..Len(entropy_pool) |-> to_bytes4(entropy_pool[j]) ]
    IN join_bytes(chunks, 1, Len(entropy_pool))

\* the same loop of generate_random_numbers: (sample ^ i ^ j) for the j-th
\* sample, j counted from 0
sample_bytes_indexed(entropy_pool, i) ==
    LET chunks == [ j \in 1..Len(entropy_pool) |->
                      to_bytes4(Xor(Xor(entropy_pool[j], i), j - 1)) ]
    IN join_bytes(chunks, 1, Len(entropy_pool))

\* SHA-256 itself is outside the model. Its stand-in keeps what the code
\* relies on: a 32-byte digest that is a function of the whole byte stream
\* (every byte and its position). absorb folds the stream by halves.
RECURSIVE absorb(_, _, _)
absorb(data, lo, hi) ==
    IF lo > hi THEN 0
    ELSE IF lo = hi THEN ((data[lo] + 1) * ((lo % 127) + 1)) % 65521
    ELSE LET mid == (lo + hi) \div 2
         IN (absorb(data, lo, mid) + absorb(data, mid + 1, hi)) % 65521

sha256_digest(data) ==
    LET a == absorb(data, 1, Len(data))
    IN [ k \in 1..32 |-> ((a \div k) + 37 * k + (a % 251)) % 256 ]

\* the reduction with `& 0xFFFF` for `% 2048`
reduce_digest_masked(hash_bytes) == from_bytes_mod(SubSeq(hash_bytes, 1, 4), 65536)

\* int.from_bytes(hash_bytes[:4], 'big') % 2048
reduce_digest(hash_bytes) == from_bytes_mod(SubSeq(hash_bytes, 1, 4), 2048)

\* generate_random_number past its two checks; timestamp is time.time_ns()
mix(timestamp, entropy_pool) ==
    reduce_digest(sha256_digest(str_encode(timestamp) \o sample_bytes(entropy_pool)))

\* one pass of generate_random_numbers' `for i in range(count)` loop;
\* timestamp is the time.time_ns() read in that pass
mix_indexed(timestamp, i, entropy_pool) ==
    reduce_digest(sha256_digest(str_encode(timestamp + i) \o str_encode(i)
                                \o sample_bytes_indexed(entropy_pool, i)))

\* the default min_entropy_samples of generate_random_number
min_entropy_samples == 300

\* the default min_entropy_samples of generate_random_numbers
min_entropy_samples_gui == 400

-----------------------------------------------------------------------------
(* The inputs explored *)

Threads == 1..MaxStarts

\* pointer coordinates delivered by pynput
Coordinates == { <<0, 0>>, <<640, 481>> }

\* time.time_ns() readings (their low-order part)
NsReadings == { 1999999 }

\* psutil readings: <<user, system, idle, processes>>
CpuReadings == { <<12, 3, 200, 2>> }

\* audio buffers: <<rms, peak, variance>>
AudioReadings == { <<3, 70000, 70001>> }

\* runs of pointer callbacks: <<how many, seconds between two of them>>
SweepShapes == { <<284, 0>>, <<285, 0>>, <<15, 2>>, <<1999, 0>> }

\* runs of scheduler-loop iterations and of audio-loop iterations: how many
CpuRunLengths == { 49, 1999 }
AudioRunLengths == { 99, 1999 }

\* time.time_ns() read in two successive passes of the batch loop
BatchReadings == { 1999999, 2000000 }

NoUse ==
    [ starts |-> 0, stops |-> 0, ticks |-> 0, backs |-> 0, moves |-> 0,
      cpu |-> 0, audio |-> 0, calls |-> 0, sweeps |-> 0, cpu_runs |-> 0,
      audio_runs |-> 0 ]

Use(what) == [ used EXCEPT ![what] = @ + 1 ]

SingleSteps ==
    used.moves + used.cpu + used.audio + used.ticks + used.backs + used.calls

\* one more single step of a kind is within the bounds
CanStep(what, max) == used[what] < max /\ SingleSteps < MaxSteps

\* the runs are explored before the single steps: no single step was taken
NoSingleStep ==
    /\ used.moves = 0 /\ used.cpu = 0 /\ used.audio = 0
    /\ used.ticks = 0 /\ used.backs = 0 /\ used.calls = 0

NewStream == [ state |-> "unopened", closes |-> 0 ]

\* Stream.stop_stream(); Stream.close()
close_stream(st) == [ state |-> "closed", closes |-> st.closes + 1 ]

-----------------------------------------------------------------------------
(* The state after `rng = EntropyRNG()` *)

Init ==
    /\ variant \in { "cli", "gui" }
    /\ session = None
    /\ clock = 0
    /\ collector = NewCollector
    /\ generated_numbers = <<>>
    /\ listeners = {}
    /\ callback = None
    /\ cpu_pc = [ t \in Threads |-> "unborn" ]
    /\ audio_pc = [ t \in Threads |-> "unborn" ]
    /\ streams = [ t \in Threads |-> NewStream ]
    /\ call = None
    /\ ret = None
    /\ used = NoUse

-----------------------------------------------------------------------------
(* The wall clock *)

Tick(d) ==
    /\ CanStep("ticks", MaxTicks)
    /\ clock + d <= MaxClock
    /\ clock' = clock + d
    /\ used' = Use("ticks")
    /\ UNCHANGED <<variant, session, collector, generated_numbers, listeners, callback,
                   cpu_pc, audio_pc, streams, call, ret>>

\* time.time() is the wall clock: an adjustment can set it back
StepBack(d) ==
    /\ CanStep("backs", MaxStepBacks)
    /\ clock - d >= 0
    /\ clock' = clock - d
    /\ used' = Use("backs")
    /\ UNCHANGED <<variant, session, collector, generated_numbers, listeners, callback,
                   cpu_pc, audio_pc, streams, call, ret>>

-----------------------------------------------------------------------------
(* start_collection and stop_collection, called by the consumer thread *)

StartCollection(include_audio) ==
    /\ call = None
    /\ used.starts < MaxStarts
    /\ LET t == used.starts + 1
       IN /\ collector' =
                IF variant = "gui"
                THEN start_collection_gui(collector, clock, t, include_audio)
                ELSE start_collection(collector, clock, t)
          /\ listeners' = listeners \cup { t }
          /\ cpu_pc' = [ cpu_pc EXCEPT ![t] = "while" ]
          /\ audio_pc' = IF variant = "gui" /\ include_audio
                         THEN [ audio_pc EXCEPT ![t] = "open" ]
                         ELSE audio_pc
    /\ session' = Some(variant = "gui" /\ include_audio)
    /\ used' = Use("starts")
    /\ ret' = Some([ op |-> "start_collection", include_audio |-> include_audio,
                     was_collecting |-> collector.collecting ])
    /\ UNCHANGED <<variant, clock, generated_numbers, callback, streams, call>>

StopCollection ==
    /\ call = None
    /\ used.stops < MaxStops
    /\ collector' = IF variant = "gui" THEN stop_collection_gui(collector)
                    ELSE stop_collection(collector)
    /\ listeners' = IF collector.mouse_listener # None
                    THEN listeners \ { Val(collector.mouse_listener) }
                    ELSE listeners
    /\ streams' = IF variant = "gui" /\ collector.audio_stream # None
                  THEN [ streams EXCEPT ![Val(collector.audio_stream)] = close_stream(@) ]
                  ELSE streams
    /\ used' = Use("stops")
    /\ ret' = Some([ op |-> "stop_collection", was_collecting |-> collector.collecting ])
    /\ UNCHANGED <<variant, session, clock, generated_numbers, callback, cpu_pc, audio_pc, call>>

-----------------------------------------------------------------------------
(* The pointer listener thread *)

\* a listener calls on_mouse_move(x, y): the `if self.collecting` test and the
\* two clock readings
MouseMoveEnter(l, xy, timestamp) ==
    /\ callback = None
    /\ CanStep("moves", MaxMoves)
    /\ callback' = IF collector.collecting
                   THEN Some([ x |-> xy[1], y |-> xy[2], timestamp |-> timestamp,
                               current_time |-> clock ])
                   ELSE None
    /\ used' = Use("moves")
    /\ UNCHANGED <<variant, session, clock, collector, generated_numbers, listeners,
                   cpu_pc, audio_pc, streams, call, ret>>

\* the rest of on_mouse_move
MouseMoveBody ==
    /\ callback # None
    /\ LET cb == Val(callback)
       IN collector' = on_mouse_move(collector, cb.x, cb.y, cb.timestamp, cb.current_time)
    /\ callback' = None
    /\ UNCHANGED <<variant, session, clock, generated_numbers, listeners, cpu_pc, audio_pc,
                   streams, call, ret, used>>

\* callbacks lo..hi of a run of on_mouse_move calls that no other thread
\* interrupts: the k-th is on_mouse_move(k, 0) and reads the clock at
\* start + k * gap; each runs its body `if self.collecting`. The run is
\* split by halves.
RECURSIVE deliver(_, _, _, _, _)
deliver(self, lo, hi, start, gap) ==
    IF lo > hi THEN self
    ELSE IF lo = hi THEN on_mouse_move(self, lo, 0, 0, start + lo * gap)
    ELSE LET mid == (lo + hi) \div 2
             first == deliver(self, lo, mid, start, gap)
         IN IF first.collecting THEN deliver(first, mid + 1, hi, start, gap)
            ELSE first

\* the pointer keeps moving: shape[1] callbacks, shape[2] seconds apart
MouseSweep(shape) ==
    /\ NoSingleStep
    /\ listeners # {}
    /\ callback = None
    /\ collector.collecting
    /\ used.sweeps < MaxSweeps
    /\ clock + shape[1] * shape[2] <= MaxClock
    /\ collector' = deliver(collector, 1, shape[1], clock, shape[2])
    /\ clock' = clock + shape[1] * shape[2]
    /\ used' = Use("sweeps")
    /\ UNCHANGED <<variant, session, generated_numbers, listeners, callback, cpu_pc, audio_pc,
                   streams, call, ret>>

-----------------------------------------------------------------------------
(* The collect_cpu_entropy threads *)

\* `while self.collecting`
CpuWhile(t) ==
    /\ cpu_pc[t] = "while"
    /\ collector.collecting => CanStep("cpu", MaxCpuTicks)
    /\ cpu_pc' = [ cpu_pc EXCEPT ![t] = IF collector.collecting THEN "try" ELSE "done" ]
    /\ used' = IF collector.collecting THEN Use("cpu") ELSE used
    /\ UNCHANGED <<variant, session, clock, collector, generated_numbers, listeners, callback,
                   audio_pc, streams, call, ret>>

\* the try block without its `except Exception: pass`: a psutil read that
\* raises ends the thread
CpuTry_unguarded(t, ok, reading, timestamp) ==
    /\ cpu_pc[t] = "try"
    /\ collector' =
          IF ok
          THEN collect_cpu_entropy(collector,
                   cpu_sample(reading[1], reading[2], reading[3], reading[4], timestamp))
          ELSE collector
    /\ cpu_pc' = [ cpu_pc EXCEPT ![t] = IF ok THEN "while" ELSE "done" ]
    /\ UNCHANGED <<variant, session, clock, generated_numbers, listeners, callback, audio_pc,
                   streams, call, ret, used>>

\* the try block and the sleep; a psutil read that raises is swallowed
CpuTry(t, ok, reading, timestamp) ==
    /\ cpu_pc[t] = "try"
    /\ collector' =
          IF ok
          THEN collect_cpu_entropy(collector,
                   cpu_sample(reading[1], reading[2], reading[3], reading[4], timestamp))
          ELSE collector
    /\ cpu_pc' = [ cpu_pc EXCEPT ![t] = "while" ]
    /\ UNCHANGED <<variant, session, clock, generated_numbers, listeners, callback, audio_pc,
                   streams, call, ret, used>>

\* passes lo..hi of a run of the loop that no other thread interrupts, every
\* read succeeding; each pass is entered `while self.collecting`
RECURSIVE cpu_passes(_, _, _)
cpu_passes(self, lo, hi) ==
    IF lo > hi THEN self
    ELSE IF lo = hi THEN collect_cpu_entropy(self, cpu_sample(12, 3, 200, 2, lo))
    ELSE LET mid == (lo + hi) \div 2
             first == cpu_passes(self, lo, mid)
         IN IF first.collecting THEN cpu_passes(first, mid + 1, hi) ELSE first

\* n passes of the loop while collecting stays set
CpuRun(t, n) ==
    /\ NoSingleStep
    /\ cpu_pc[t] = "while"
    /\ collector.collecting
    /\ used.cpu_runs < MaxCpuRuns
    /\ collector' = cpu_passes(collector, 1, n)
    /\ used' = Use("cpu_runs")
    /\ UNCHANGED <<variant, session, clock, generated_numbers, listeners, callback, cpu_pc,
                   audio_pc, streams, call, ret>>

-----------------------------------------------------------------------------
(* The collect_audio_entropy threads (entropy_rng_gui.py) *)

\* self.audio_stream = self.audio_p.open(...), or the open raises
AudioOpen(t, ok) ==
    /\ audio_pc[t] = "open"
    /\ IF ok
       THEN /\ streams' = [ streams EXCEPT ![t].state = "open" ]
            /\ collector' = [ collector EXCEPT !.audio_stream = Some(t) ]
            /\ audio_pc' = [ audio_pc EXCEPT ![t] = "while" ]
       ELSE /\ audio_pc' = [ audio_pc EXCEPT ![t] = "finally" ]
            /\ UNCHANGED <<streams, collector>>
    /\ UNCHANGED <<variant, session, clock, generated_numbers, listeners, callback, cpu_pc,
                   call, ret, used>>

\* `while self.collecting and self.audio_recording`
AudioWhile(t) ==
    /\ audio_pc[t] = "while"
    /\ LET go == collector.collecting /\ collector.audio_recording
       IN /\ go => CanStep("audio", MaxAudioReads)
          /\ audio_pc' = [ audio_pc EXCEPT ![t] = IF go THEN "read" ELSE "finally" ]
          /\ used' = IF go THEN Use("audio") ELSE used
    /\ UNCHANGED <<variant, session, clock, collector, generated_numbers, listeners, callback,
                   cpu_pc, streams, call, ret>>

\* the inner try block: self.audio_stream.read(...) and the sample; a read
\* that raises (always, on a closed stream) skips the buffer
AudioRead(t, ok, reading, timestamp) ==
    /\ audio_pc[t] = "read"
    /\ ok => streams[Val(collector.audio_stream)].state = "open"
    /\ collector' =
          IF ok
          THEN collect_audio_entropy(collector,
                   audio_sample(reading[1], reading[2], reading[3], timestamp))
          ELSE collector
    /\ audio_pc' = [ audio_pc EXCEPT ![t] = "while" ]
    /\ UNCHANGED <<variant, session, clock, generated_numbers, listeners, callback, cpu_pc,
                   streams, call, ret, used>>

\* finally: if self.audio_stream: stop_stream(); close()
AudioFinally(t) ==
    /\ audio_pc[t] = "finally"
    /\ streams' = IF collector.audio_stream # None
                  THEN [ streams EXCEPT ![Val(collector.audio_stream)] = close_stream(@) ]
                  ELSE streams
    /\ audio_pc' = [ audio_pc EXCEPT ![t] = "done" ]
    /\ UNCHANGED <<variant, session, clock, collector, generated_numbers, listeners, callback,
                   cpu_pc, call, ret, used>>

\* passes lo..hi of a run of the loop that no other thread interrupts, every
\* read succeeding; each pass is entered `while self.collecting and
\* self.audio_recording`
RECURSIVE audio_passes(_, _, _)
audio_passes(self, lo, hi) ==
    IF lo > hi THEN self
    ELSE IF lo = hi THEN collect_audio_entropy(self, audio_sample(3, 70000, 70001, lo))
    ELSE LET mid == (lo + hi) \div 2
             first == audio_passes(self, lo, mid)
         IN IF first.collecting /\ first.audio_recording
            THEN audio_passes(first, mid + 1, hi)
            ELSE first

\* n passes of the loop while collecting and audio_recording stay set
AudioRun(t, n) ==
    /\ NoSingleStep
    /\ audio_pc[t] = "while"
    /\ collector.collecting /\ collector.audio_recording
    /\ streams[Val(collector.audio_stream)].state = "open"
    /\ used.audio_runs < MaxAudioRuns
    /\ collector' = audio_passes(collector, 1, n)
    /\ used' = Use("audio_runs")
    /\ UNCHANGED <<variant, session, clock, generated_numbers, listeners, callback, cpu_pc,
                   audio_pc, streams, call, ret>>

-----------------------------------------------------------------------------
(* The consumer thread: sufficiency, generation and status calls *)

\* has_sufficient_entropy() of the variant that runs
sufficient(self, current_time) ==
    IF variant = "gui" THEN has_sufficient_entropy_gui(self, current_time)
    ELSE has_sufficient_entropy(self, current_time)

\* what the consumer can see of the collector when it calls
seen(self, current_time) ==
    [ mouse_duration |-> get_mouse_movement_duration(self, current_time),
      mouse_samples |-> Len(self.mouse_entropy),
      audio_samples |-> Len(self.audio_entropy) ]

\* rng.collector.has_sufficient_entropy(), as main() and update_status call it
HasSufficientEntropy ==
    /\ call = None
    /\ CanStep("calls", MaxCalls)
    /\ ret' = Some([ op |-> "has_sufficient_entropy",
                     value |-> sufficient(collector, clock),
                     at |-> seen(collector, clock) ])
    /\ used' = Use("calls")
    /\ UNCHANGED <<variant, session, clock, collector, generated_numbers, listeners, callback,
                   cpu_pc, audio_pc, streams, call>>

\* rng.collector.get_mouse_movement_duration(), as main() and update_status
\* call it
GetMouseMovementDuration ==
    /\ call = None
    /\ CanStep("calls", MaxCalls)
    /\ ret' = Some([ op |-> "get_mouse_movement_duration",
                     value |-> get_mouse_movement_duration(collector, clock),
                     now |-> clock ])
    /\ used' = Use("calls")
    /\ UNCHANGED <<variant, session, clock, collector, generated_numbers, listeners, callback,
                   cpu_pc, audio_pc, streams, call>>

\* rng.collector.is_mouse_currently_active(), as main() and update_status
\* call it
IsMouseCurrentlyActive ==
    /\ call = None
    /\ CanStep("calls", MaxCalls)
    /\ ret' = Some([ op |-> "is_mouse_currently_active",
                     value |-> is_mouse_currently_active(collector, clock),
                     now |-> clock ])
    /\ used' = Use("calls")
    /\ UNCHANGED <<variant, session, clock, collector, generated_numbers, listeners, callback,
                   cpu_pc, audio_pc, streams, call>>

\* generate_random_number() / generate_random_numbers(count): the
\* `if not self.collector.has_sufficient_entropy(): raise ValueError`
GenerateCheck(count) ==
    /\ variant = "cli" => count = 1
    /\ call = None
    /\ CanStep("calls", MaxCalls)
    /\ IF sufficient(collector, clock)
       THEN /\ call' = Some([ op |-> "generate", count |-> count,
                              at |-> seen(collector, clock),
                              copied |-> 0, entropy_pool |-> <<>> ])
            /\ ret' = ret
       ELSE /\ call' = None
            /\ ret' = Some([ op |-> "generate", count |-> count,
                             raised |-> "Insufficient entropy",
                             at |-> seen(collector, clock),
                             pool_len |-> 0, value |-> <<>> ])
    /\ used' = Use("calls")
    /\ UNCHANGED <<variant, session, clock, collector, generated_numbers, listeners, callback,
                   cpu_pc, audio_pc, streams>>

\* the loop with range(count - 1) for range(count)
numbers_of_short(entropy_pool, count, timestamps) ==
    IF variant = "gui"
    THEN [ i \in 1..(count - 1) |-> mix_indexed(timestamps[i], i - 1, entropy_pool) ]
    ELSE << mix(timestamps[1], entropy_pool) >>

\* the numbers a generation call that passed both checks computes:
\* timestamps[i] is the time.time_ns() read for the i-th number
numbers_of(entropy_pool, count, timestamps) ==
    IF variant = "gui"
    THEN [ i \in 1..count |-> mix_indexed(timestamps[i], i - 1, entropy_pool) ]
    ELSE << mix(timestamps[1], entropy_pool) >>

\* the pools get_entropy_pool copies, in its order
pool_sources ==
    IF variant = "gui" THEN << "mouse", "cpu", "audio" >> ELSE << "mouse", "cpu" >>

pool_of(self, source) ==
    IF source = "mouse" THEN self.mouse_entropy
    ELSE IF source = "cpu" THEN self.cpu_entropy
    ELSE self.audio_entropy

\* entropy_pool = self.collector.get_entropy_pool(), one
\* `entropy_pool.extend(list(self.<source>_entropy))` at a time: the producers
\* run between two copies
GetEntropyPool ==
    /\ call # None
    /\ Val(call).op = "generate"
    /\ Val(call).copied < Len(pool_sources)
    /\ LET c == Val(call)
           source == pool_sources[c.copied + 1]
       IN call' = Some([ c EXCEPT !.copied = @ + 1,
                                  !.entropy_pool = @ \o pool_of(collector, source) ])
    /\ UNCHANGED <<variant, session, clock, collector, generated_numbers, listeners, callback,
                   cpu_pc, audio_pc, streams, ret, used>>

\* a loop that reads the pools again instead of the list it was given
pool_hashed_live(c, self) ==
    IF variant = "gui" THEN get_entropy_pool_gui(self) ELSE get_entropy_pool(self)

\* what `for sample in entropy_pool` iterates: the local list
pool_hashed(c, self) == c.entropy_pool

\* a history that is replaced by the new numbers
record_numbers_fresh(history, numbers) == numbers

\* self.generated_numbers.append(result) / .extend(numbers)
record_numbers(history, numbers) == history \o numbers

\* the rest of the generation call: the
\* `if len(entropy_pool) < min_entropy_samples: raise ValueError`, the mixing
\* and the append / extend of generated_numbers; live_len is the length of
\* the pools when the call returns
GenerateMix(timestamps) ==
    /\ call # None
    /\ Val(call).op = "generate"
    /\ Val(call).copied = Len(pool_sources)
    /\ LET c == Val(call)
           entropy_pool == pool_hashed(c, collector)
           minimum == IF variant = "gui" THEN min_entropy_samples_gui
                      ELSE min_entropy_samples
       IN IF Len(c.entropy_pool) < minimum
          THEN /\ ret' = Some([ op |-> "generate", count |-> c.count,
                                raised |-> "Insufficient total entropy",
                                at |-> c.at,
                                pool_len |-> Len(c.entropy_pool), value |-> <<>> ])
               /\ generated_numbers' = generated_numbers
          ELSE LET numbers == numbers_of(entropy_pool, c.count, timestamps)
               IN /\ generated_numbers' = record_numbers(generated_numbers, numbers)
                  /\ ret' = Some([ op |-> "generate", count |-> c.count,
                                   raised |-> "",
                                   at |-> c.at,
                                   pool_len |-> Len(c.entropy_pool),
                                   live_len |-> Len(pool_hashed_live(c, collector)),
                                   value |-> numbers ])
    /\ call' = None
    /\ UNCHANGED <<variant, session, clock, collector, listeners, callback, cpu_pc, audio_pc,
                   streams, used>>

\* get_entropy_status(): mouse_count = len(self.collector.mouse_entropy)
StatusMouse ==
    /\ call = None
    /\ CanStep("calls", MaxCalls)
    /\ call' = Some([ op |-> "get_entropy_status", pc |-> "cpu",
                      mouse_count |-> Len(collector.mouse_entropy),
                      cpu_count |-> 0 ])
    /\ used' = Use("calls")
    /\ UNCHANGED <<variant, session, clock, collector, generated_numbers, listeners, callback,
                   cpu_pc, audio_pc, streams, ret>>

\* cpu_count = len(self.collector.cpu_entropy); entropy_rng.py returns here
StatusCpu ==
    /\ call # None
    /\ Val(call).op = "get_entropy_status"
    /\ Val(call).pc = "cpu"
    /\ LET c == Val(call)
           cpu_count == Len(collector.cpu_entropy)
       IN IF variant = "gui"
          THEN /\ call' = Some([ c EXCEPT !.pc = "audio", !.cpu_count = cpu_count ])
               /\ ret' = ret
          ELSE /\ call' = None
               /\ ret' = Some([ op |-> "get_entropy_status",
                                mouse_samples |-> c.mouse_count,
                                cpu_samples |-> cpu_count,
                                audio_samples |-> 0,
                                total_samples |-> c.mouse_count + cpu_count ])
    /\ UNCHANGED <<variant, session, clock, collector, generated_numbers, listeners, callback,
                   cpu_pc, audio_pc, streams, used>>

\* audio_count = len(self.collector.audio_entropy) and the return
\* (entropy_rng_gui.py)
StatusAudio ==
    /\ call # None
    /\ Val(call).op = "get_entropy_status"
    /\ Val(call).pc = "audio"
    /\ LET c == Val(call)
           audio_count == Len(collector.audio_entropy)
       IN ret' = Some([ op |-> "get_entropy_status",
                        mouse_samples |-> c.mouse_count,
                        cpu_samples |-> c.cpu_count,
                        audio_samples |-> audio_count,
                        total_samples |-> c.mouse_count + c.cpu_count + audio_count ])
    /\ call' = None
    /\ UNCHANGED <<variant, session, clock, collector, generated_numbers, listeners, callback,
                   cpu_pc, audio_pc, streams, used>>

-----------------------------------------------------------------------------
(* The whole program *)

Next ==
    \/ \E d \in 1..3 : Tick(d)
    \/ \E d \in 1..3 : StepBack(d)
    \/ \E include_audio \in BOOLEAN : StartCollection(include_audio)
    \/ StopCollection
    \/ \E l \in listeners, xy \in Coordinates, ts \in NsReadings :
          MouseMoveEnter(l, xy, ts)
    \/ MouseMoveBody
    \/ \E shape \in SweepShapes : MouseSweep(shape)
    \/ \E t \in Threads : CpuWhile(t)
    \/ \E t \in Threads, ok \in BOOLEAN, r \in CpuReadings, ts \in NsReadings :
          CpuTry(t, ok, r, ts)
    \/ \E t \in Threads, n \in CpuRunLengths : CpuRun(t, n)
    \/ \E t \in Threads, ok \in BOOLEAN : AudioOpen(t, ok)
    \/ \E t \in Threads : AudioWhile(t)
    \/ \E t \in Threads, ok \in BOOLEAN, r \in AudioReadings, ts \in NsReadings :
          AudioRead(t, ok, r, ts)
    \/ \E t \in Threads, n \in AudioRunLengths : AudioRun(t, n)
    \/ \E t \in Threads : AudioFinally(t)
    \/ HasSufficientEntropy
    \/ GetMouseMovementDuration
    \/ IsMouseCurrentlyActive
    \/ \E count \in 0..MaxCount : GenerateCheck(count)
    \/ GetEntropyPool
    \/ \E ts \in [ 1..MaxCount -> NsReadings ] : GenerateMix(ts)
    \/ StatusMouse
    \/ StatusCpu
    \/ StatusAudio

Spec == Init /\ [][Next]_vars

-----------------------------------------------------------------------------
(* The parts of the program the properties below are checked in. Each keeps  *)
(* every operation that can change what its properties are about.            *)

\* the activity tracker: the lifecycle calls, the clock, single pointer
\* callbacks and the sufficiency call, from the first callback on
NextTracker ==
    \/ \E d \in 1..3 : Tick(d)
    \/ \E d \in 1..3 : StepBack(d)
    \/ \E include_audio \in BOOLEAN : StartCollection(include_audio)
    \/ StopCollection
    \/ \E l \in listeners, xy \in Coordinates, ts \in NsReadings :
          MouseMoveEnter(l, xy, ts)
    \/ MouseMoveBody
    \/ HasSufficientEntropy

SpecTracker == Init /\ [][NextTracker]_vars

\* the sufficiency predicate around its thresholds: one session, runs of
\* pointer callbacks and of audio buffers, then the clock, single producer
\* steps and the sufficiency call
NextSufficiency ==
    \/ \E d \in 1..3 : Tick(d)
    \/ \E include_audio \in BOOLEAN : used.starts = 0 /\ StartCollection(include_audio)
    \/ \E l \in listeners, xy \in Coordinates, ts \in NsReadings :
          MouseMoveEnter(l, xy, ts)
    \/ MouseMoveBody
    \/ \E shape \in { <<284, 0>>, <<15, 2>> } : used.sweeps < 2 /\ MouseSweep(shape)
    \/ \E t \in Threads : AudioOpen(t, TRUE)
    \/ \E t \in Threads : AudioWhile(t)
    \/ \E t \in Threads, r \in AudioReadings, ts \in NsReadings :
          AudioRead(t, TRUE, r, ts)
    \/ \E t \in Threads : used.audio_runs = 0 /\ AudioRun(t, 99)
    \/ HasSufficientEntropy

SpecSufficiency == Init /\ [][NextSufficiency]_vars

\* generation around its thresholds: as above, with the scheduler thread and
\* the generation call in place of the sufficiency call
NextGenerate ==
    \/ \E d \in 1..2 : Tick(d)
    \/ \E include_audio \in BOOLEAN : used.starts = 0 /\ StartCollection(include_audio)
    \/ \E l \in listeners, xy \in Coordinates, ts \in NsReadings :
          MouseMoveEnter(l, xy, ts)
    \/ MouseMoveBody
    \/ \E shape \in { <<284, 0>>, <<15, 2>> } : used.sweeps < 2 /\ MouseSweep(shape)
    \/ \E t \in Threads : CpuWhile(t)
    \/ \E t \in Threads, r \in CpuReadings, ts \in NsReadings :
          CpuTry(t, TRUE, r, ts)
    \/ \E t \in Threads : AudioOpen(t, TRUE)
    \/ \E t \in Threads : AudioWhile(t)
    \/ \E t \in Threads, r \in AudioReadings, ts \in NsReadings :
          AudioRead(t, TRUE, r, ts)
    \/ \E t \in Threads : used.audio_runs = 0 /\ AudioRun(t, 99)
    \/ \E count \in 0..MaxCount : GenerateCheck(count)
    \/ GetEntropyPool
    \/ \E ts \in [ 1..MaxCount -> NsReadings ] : GenerateMix(ts)

SpecGenerate == Init /\ [][NextGenerate]_vars

\* the pools around their capacity: one session, one run of each producer
\* that fills its pool but for one place, then single producer steps
NextPools ==
    \/ \E include_audio \in BOOLEAN : used.starts = 0 /\ StartCollection(include_audio)
    \/ \E l \in listeners, xy \in Coordinates, ts \in NsReadings :
          MouseMoveEnter(l, xy, ts)
    \/ MouseMoveBody
    \/ used.sweeps = 0 /\ MouseSweep(<<1999, 0>>)
    \/ \E t \in Threads : CpuWhile(t)
    \/ \E t \in Threads, ok \in BOOLEAN, r \in CpuReadings, ts \in NsReadings :
          CpuTry(t, ok, r, ts)
    \/ \E t \in Threads : CpuRun(t, 1999)
    \/ \E t \in Threads : AudioOpen(t, TRUE)
    \/ \E t \in Threads : AudioWhile(t)
    \/ \E t \in Threads, ok \in BOOLEAN, r \in AudioReadings, ts \in NsReadings :
          AudioRead(t, ok, r, ts)
    \/ \E t \in Threads : used.audio_runs = 0 /\ AudioRun(t, 1999)

SpecPools == Init /\ [][NextPools]_vars

\* the status call among the producers' single steps, over two sessions
NextStatus ==
    \/ \E include_audio \in BOOLEAN : StartCollection(include_audio)
    \/ StopCollection
    \/ \E l \in listeners, xy \in Coordinates, ts \in NsReadings :
          MouseMoveEnter(l, xy, ts)
    \/ MouseMoveBody
    \/ \E t \in Threads : CpuWhile(t)
    \/ \E t \in Threads, r \in CpuReadings, ts \in NsReadings :
          CpuTry(t, TRUE, r, ts)
    \/ \E t \in Threads : AudioOpen(t, TRUE)
    \/ \E t \in Threads : AudioWhile(t)
    \/ \E t \in Threads, r \in AudioReadings, ts \in NsReadings :
          AudioRead(t, TRUE, r, ts)
    \/ StatusMouse
    \/ StatusCpu
    \/ StatusAudio

SpecStatus == Init /\ [][NextStatus]_vars

\* Batch generation with the clock read in every pass of its loop.
NextBatch ==
    \/ \E include_audio \in BOOLEAN : used.starts = 0 /\ StartCollection(include_audio)
    \/ \E l \in listeners, xy \in Coordinates, ts \in NsReadings :
          MouseMoveEnter(l, xy, ts)
    \/ MouseMoveBody
    \/ \E shape \in { <<284, 0>>, <<15, 2>> } : used.sweeps < 2 /\ MouseSweep(shape)
    \/ \E t \in Threads : AudioOpen(t, TRUE)
    \/ \E t \in Threads : AudioWhile(t)
    \/ \E t \in Threads, r \in AudioReadings, ts \in NsReadings :
          AudioRead(t, TRUE, r, ts)
    \/ \E t \in Threads : used.audio_runs = 0 /\ AudioRun(t, 99)
    \/ \E count \in 0..MaxCount : GenerateCheck(count)
    \/ GetEntropyPool
    \/ \E ts \in [ 1..MaxCount -> BatchReadings ] : GenerateMix(ts)

SpecBatch == Init /\ [][NextBatch]_vars

\* One session whose pointer goes quiet while the consumer keeps asking.
NextStability ==
    \/ \E d \in 1..3 : Tick(d)
    \/ \E include_audio \in BOOLEAN : used.starts = 0 /\ StartCollection(include_audio)
    \/ \E l \in listeners, xy \in Coordinates, ts \in NsReadings :
          MouseMoveEnter(l, xy, ts)
    \/ MouseMoveBody
    \/ \E shape \in { <<15, 2>>, <<285, 0>> } : used.sweeps < 2 /\ MouseSweep(shape)
    \/ HasSufficientEntropy

SpecStability == Init /\ [][NextStability]_vars

-----------------------------------------------------------------------------
(* Properties *)

C2_NumberInRangeAndRecorded ==
    /\ \A k \in 1..Len(generated_numbers) : generated_numbers[k] \in 0..2047
    /\ (variant = "cli" /\ ret # None /\ Val(ret).op = "generate"
          /\ Val(ret).raised = "")
         => /\ Len(Val(ret).value) = 1
            /\ Val(ret).value[1] \in 0..2047
            /\ Len(generated_numbers) >= 1
            /\ generated_numbers[Len(generated_numbers)] = Val(ret).value[1]

\* generate_random_number() returned a number
C2_NumberReturned ==
    /\ variant = "cli"
    /\ ret # None
    /\ Val(ret).op = "generate"
    /\ Val(ret).raised = ""
    /\ Len(generated_numbers) = 1

\* C3: the step that completes a successful generate_random_numbers(count)
\* returns exactly count values, each in [0, 2048), extends generated_numbers
\* by exactly these values in the same order, and happens only past the
\* sufficiency gate with a snapshot of at least 400 samples.
C3_BatchReturnedAndRecorded ==
    [][ (variant = "gui" /\ call # None /\ Val(call).op = "generate"
           /\ call' = None /\ Val(ret').raised = "")
        => /\ Len(Val(ret').value) = Val(call).count
           /\ \A k \in 1..Len(Val(ret').value) : Val(ret').value[k] \in 0..2047
           /\ generated_numbers' = generated_numbers \o Val(ret').value
           /\ Val(ret').pool_len >= 400
           /\ Val(ret').at.mouse_duration >= 30
           /\ Val(ret').at.mouse_samples >= 300
           /\ Val(ret').at.audio_samples >= 100 ]_vars

\* generate_random_numbers(count=2) returned
C3_BatchReturned ==
    /\ variant = "gui"
    /\ ret # None
    /\ Val(ret).op = "generate"
    /\ Val(ret).raised = ""
    /\ Val(ret).count = 2
    /\ Len(generated_numbers) = 2

\* C4: every has_sufficient_entropy() call of entropy_rng.py returns true iff,
\* in the state it is called in, get_mouse_movement_duration() >= 30 and
\* len(mouse_entropy) >= 300, and it leaves the collector, the clock and
\* generated_numbers as they were.
C4_SufficiencyIsPure ==
    [][ (variant = "cli" /\ used'.calls = used.calls + 1)
        => /\ Val(ret').op = "has_sufficient_entropy"
           /\ Val(ret').value
                <=> (/\ get_mouse_movement_duration(collector, clock) >= 30
                     /\ Len(collector.mouse_entropy) >= 300)
           /\ UNCHANGED <<collector, clock, generated_numbers, listeners>> ]_vars

\* the second call of a session returned true, at exactly 30 s and 300 samples
C4_SufficiencyReached ==
    /\ variant = "cli"
    /\ used.calls = 2
    /\ ret # None
    /\ Val(ret).op = "has_sufficient_entropy"
    /\ Val(ret).value
    /\ Val(ret).at.mouse_duration = 30
    /\ Val(ret).at.mouse_samples = 300

\* C5: after start_collection(include_audio=False), has_sufficient_entropy()
\* returns true iff the active duration is at least 30 s and the pointer pool
\* holds at least 300 samples, whatever the audio pool's length.
C5_AudioTermOnlyWhenEnabled ==
    (variant = "gui" /\ session = Some(FALSE) /\ ret # None
       /\ Val(ret).op = "has_sufficient_entropy")
      => (Val(ret).value
            <=> (Val(ret).at.mouse_duration >= 30 /\ Val(ret).at.mouse_samples >= 300))

\* with audio disabled, the call returned false at 30 s and 300 pointer samples
C5_RefusedWithoutAudio ==
    /\ variant = "gui"
    /\ session = Some(FALSE)
    /\ ret # None
    /\ Val(ret).op = "has_sufficient_entropy"
    /\ ~Val(ret).value
    /\ Val(ret).at.mouse_duration >= 30
    /\ Val(ret).at.mouse_samples >= 300
    /\ Val(ret).at.audio_samples = 0

\* C6: each pool holds at most 2000 values, and they are the most recent
\* min(2000, n) of the n values appended to it, in the order of the appends.
C6_PoolsAreBoundedFifo ==
    \A tag \in { "mouse", "cpu", "audio" } :
        LET pool == IF tag = "mouse" THEN collector.mouse_entropy
                    ELSE IF tag = "cpu" THEN collector.cpu_entropy
                    ELSE collector.audio_entropy
            appended == SelectSeq(collector.entropy_queue, LAMBDA e : e[1] = tag)
            n == Len(appended)
            kept == Min(n, 2000)
        IN /\ Len(pool) <= 2000
           /\ Len(pool) = kept
           /\ \A k \in 1..kept : pool[k] = appended[n - kept + k][2]

\* the pointer pool took two values more than it holds
C6_PoolOverflowed ==
    /\ Len(collector.mouse_entropy) = 2000
    /\ Len(SelectSeq(collector.entropy_queue, LAMBDA e : e[1] = "mouse")) = 2001

\* C7: in every record returned by get_entropy_status(), total_samples is the
\* sum of the counts of the sources enabled for the session: pointer and
\* scheduler, and audio when the session was started with include_audio.
C7_TotalIsSumOfEnabledSources ==
    (ret # None /\ Val(ret).op = "get_entropy_status")
      => Val(ret).total_samples
           = Val(ret).mouse_samples + Val(ret).cpu_samples
             + (IF session = Some(TRUE) THEN Val(ret).audio_samples ELSE 0)

\* after a session with audio was stopped and one without audio started, a
\* status record counts the audio samples of the first
C7_TotalCountsDisabledAudio ==
    /\ variant = "gui"
    /\ session = Some(FALSE)
    /\ used.stops = 1
    /\ ~collector.audio_recording
    /\ ret # None
    /\ Val(ret).op = "get_entropy_status"
    /\ Val(ret).audio_samples > 0
    /\ Val(ret).total_samples > Val(ret).mouse_samples + Val(ret).cpu_samples

\* C8: the body of on_mouse_move sets last_mouse_activity to now; it adds
\* (now - previous) to total_active_movement_time when a previous timestamp
\* exists and now - previous <= 2, and leaves the total unchanged when the
\* gap is greater than 2 or there is no previous timestamp.
C8_GapAccounting ==
    [][ (callback # None /\ callback' = None)
        => LET now == Val(callback).current_time
               previous == collector.last_mouse_activity
               before == collector.total_active_movement_time
               after == collector'.total_active_movement_time
           IN /\ collector'.last_mouse_activity = Some(now)
              /\ (previous # None /\ now - Val(previous) <= 2)
                   => after = before + (now - Val(previous))
              /\ (previous = None \/ now - Val(previous) > 2)
                   => after = before ]_vars

\* two callbacks exactly 2 s apart: the gap was counted
C8_GapAtTimeoutCounted ==
    /\ callback = None
    /\ used.moves = 2
    /\ collector.last_mouse_activity # None
    /\ collector.total_active_movement_time = 2

\* C9: no on_mouse_move call leaves total_active_movement_time smaller than
\* it was before the call, whatever time.time() returned.
C9_ActiveTimeNeverDecreases ==
    [][ (callback # None /\ callback' = None)
        => collector'.total_active_movement_time
             >= collector.total_active_movement_time ]_vars

\* the clock was set back between two callbacks: the total is negative
C9_ActiveTimeNegative ==
    /\ used.backs = 1
    /\ collector.total_active_movement_time < 0

\* C10: start_collection() during a running collection changes nothing of the
\* collector and starts no listener and no producer thread.
C10_RestartIsNoOp ==
    [][ (used'.starts = used.starts + 1 /\ collector.collecting)
        => /\ collector' = collector
           /\ listeners' = listeners
           /\ cpu_pc' = cpu_pc
           /\ audio_pc' = audio_pc ]_vars

\* a second start_collection() during a running collection left two listeners
\* and reset a tracker that had counted time
C10_RestartedWhileRunning ==
    /\ ret # None
    /\ Val(ret).op = "start_collection"
    /\ Val(ret).was_collecting
    /\ Cardinality(listeners) = 2
    /\ used.moves = 2
    /\ collector.last_mouse_activity = None
    /\ collector.total_active_movement_time = 0

-----------------------------------------------------------------------------
(* Threads and streams *)

\* the lifecycle calls among the single steps of the producer threads, with
\* reads and opens that succeed or raise
NextLifecycle ==
    \/ \E include_audio \in BOOLEAN : StartCollection(include_audio)
    \/ StopCollection
    \/ \E t \in Threads : CpuWhile(t)
    \/ \E t \in Threads, ok \in BOOLEAN, r \in CpuReadings, ts \in NsReadings :
          CpuTry(t, ok, r, ts)
    \/ \E t \in Threads, ok \in BOOLEAN : AudioOpen(t, ok)
    \/ \E t \in Threads : AudioWhile(t)
    \/ \E t \in Threads, ok \in BOOLEAN, r \in AudioReadings, ts \in NsReadings :
          AudioRead(t, ok, r, ts)
    \/ \E t \in Threads : AudioFinally(t)

SpecLifecycle == Init /\ [][NextLifecycle]_vars

\* C11: no audio stream is closed a second time, whatever the interleaving of
\* stop_collection() with the audio thread.
C11_StreamClosedAtMostOnce ==
    \A t \in Threads : streams[t].closes <= 1

\* stop_collection() closed the stream of a running session, and the audio
\* thread's finally block closed it again
C11_StreamClosedTwice ==
    \E t \in Threads :
        /\ streams[t].closes = 2
        /\ audio_pc[t] = "done"
        /\ used.stops = 1

\* C18: at any time at most one collect_cpu_entropy loop and at most one
\* collect_audio_entropy loop is alive.
C18_OneWriterPerPool ==
    /\ Cardinality({ t \in Threads : cpu_pc[t] \in { "while", "try" } }) <= 1
    /\ Cardinality({ t \in Threads : audio_pc[t] \in { "open", "while", "read" } }) <= 1

\* two collect_cpu_entropy loops are in their try block, each about to append
C18_TwoSchedulerLoops ==
    /\ cpu_pc[1] = "try"
    /\ cpu_pc[2] = "try"
    /\ collector.collecting

\* C19: a producer loop that was running when stop_collection() was called
\* leaves its loop at its next test of the flag, whatever follows the stop.
\* After start_collection(), stop_collection(), start_collection() (the one
\* order in which the second start finds collecting cleared after one stop)
\* the first session's loops were running at the stop.
C19_LoopExitsAfterStop ==
    [][ (/\ used.starts = 2
         /\ used.stops = 1
         /\ ret # None
         /\ Val(ret).op = "start_collection"
         /\ ~Val(ret).was_collecting)
        => /\ (cpu_pc[1] = "while" => cpu_pc'[1] # "try")
           /\ (audio_pc[1] = "while" => audio_pc'[1] # "read") ]_vars

\* stopped and started again, the first session's scheduler loop entered
\* another pass
C19_LoopSurvivedStop ==
    /\ used.starts = 2
    /\ used.stops = 1
    /\ ret # None
    /\ Val(ret).op = "start_collection"
    /\ ~Val(ret).was_collecting
    /\ cpu_pc[1] = "try"
    /\ cpu_pc[2] = "while"

-----------------------------------------------------------------------------
(* The activity tracker and its readers *)

\* the lifecycle calls, the clock, single pointer callbacks and the two
\* calls that read the tracker
NextActivity ==
    \/ \E d \in 1..3 : Tick(d)
    \/ \E include_audio \in BOOLEAN : StartCollection(include_audio)
    \/ StopCollection
    \/ \E l \in listeners, xy \in Coordinates, ts \in NsReadings :
          MouseMoveEnter(l, xy, ts)
    \/ MouseMoveBody
    \/ GetMouseMovementDuration
    \/ IsMouseCurrentlyActive

SpecActivity == Init /\ [][NextActivity]_vars

\* sessions that are stopped and started again once the pointer pool is
\* full enough: the lifecycle calls, runs of pointer callbacks, then the
\* clock, single callbacks and the calls that read the tracker
NextRestart ==
    \/ \E d \in 1..2 : Tick(d)
    \/ \E include_audio \in BOOLEAN : StartCollection(include_audio)
    \/ StopCollection
    \/ \E l \in listeners, xy \in Coordinates, ts \in NsReadings :
          MouseMoveEnter(l, xy, ts)
    \/ MouseMoveBody
    \/ \E shape \in { <<284, 0>>, <<15, 2>> } : used.sweeps < 2 /\ MouseSweep(shape)
    \/ HasSufficientEntropy
    \/ GetMouseMovementDuration

SpecRestart == Init /\ [][NextRestart]_vars

\* C13: get_mouse_movement_duration() called at time now returns 0 when no
\* pointer activity has been recorded, total_active_movement_time plus
\* (now - last_mouse_activity) when that gap is at most the timeout, and
\* total_active_movement_time alone when the gap exceeds the timeout.
C13_DurationCountsLiveGap ==
    [][ (used'.calls = used.calls + 1
           /\ Val(ret').op = "get_mouse_movement_duration")
        => LET last == collector.last_mouse_activity
               total == collector.total_active_movement_time
           IN Val(ret').value
                = IF last = None THEN 0
                  ELSE IF clock - Val(last) <= 2 THEN total + (clock - Val(last))
                  ELSE total ]_vars

\* a call 2 s after the only callback: nothing accumulated, 2 s of live gap
C13_DurationWithLiveGap ==
    /\ ret # None
    /\ Val(ret).op = "get_mouse_movement_duration"
    /\ Val(ret).value = 2
    /\ collector.total_active_movement_time = 0
    /\ collector.last_mouse_activity # None
    /\ Val(ret).now - Val(collector.last_mouse_activity) = 2

\* C14: is_mouse_currently_active() called at time now returns true iff a
\* pointer activity has been recorded since the last start_collection() and
\* now - last_mouse_activity <= 2.
C14_ActiveWithinTimeout ==
    [][ (used'.calls = used.calls + 1
           /\ Val(ret').op = "is_mouse_currently_active")
        => LET last == collector.last_mouse_activity
           IN Val(ret').value <=> (last # None /\ clock - Val(last) <= 2) ]_vars

\* a call exactly 2 s after the last callback returned true
C14_ActiveAtTimeout ==
    /\ ret # None
    /\ Val(ret).op = "is_mouse_currently_active"
    /\ Val(ret).value
    /\ collector.last_mouse_activity # None
    /\ Val(ret).now - Val(collector.last_mouse_activity) = 2

\* C17: collecting is a boolean; every start_collection() sets it and resets
\* the tracker; every stop_collection() clears it; and from a start until the
\* body of the next pointer callback (last_mouse_activity is None)
\* get_mouse_movement_duration() is 0 and has_sufficient_entropy() is false,
\* whatever the pools hold.
C17_Lifecycle ==
    [][ /\ collector'.collecting \in BOOLEAN
        /\ (used'.starts = used.starts + 1)
             => /\ collector'.collecting
                /\ collector'.last_mouse_activity = None
                /\ collector'.total_active_movement_time = 0
        /\ (used'.stops = used.stops + 1) => ~collector'.collecting
        /\ (collector'.last_mouse_activity = None)
             => /\ get_mouse_movement_duration(collector', clock') = 0
                /\ ~sufficient(collector', clock') ]_vars

\* a session whose pointer pool holds 300 samples was started again: the
\* sufficiency call that follows sees 0 s and returns false
C17_RestartedWithFullPool ==
    /\ used.starts = 2
    /\ collector.collecting
    /\ collector.last_mouse_activity = None
    /\ ret # None
    /\ Val(ret).op = "has_sufficient_entropy"
    /\ ~Val(ret).value
    /\ Val(ret).at.mouse_duration = 0
    /\ Val(ret).at.mouse_samples >= 300

-----------------------------------------------------------------------------
(* test_rng of test_entropy_rng.py *)

\* start_entropy_collection(), the scheduler loop by single passes and by a
\* run, pointer callbacks and the clock, get_entropy_status() and
\* generate_random_number()
NextTest ==
    \/ \E d \in 1..2 : Tick(d)
    \/ \E include_audio \in BOOLEAN : used.starts = 0 /\ StartCollection(include_audio)
    \/ \E l \in listeners, xy \in Coordinates, ts \in NsReadings :
          MouseMoveEnter(l, xy, ts)
    \/ MouseMoveBody
    \/ \E shape \in { <<284, 0>>, <<15, 2>> } : used.sweeps < 2 /\ MouseSweep(shape)
    \/ \E t \in Threads : CpuWhile(t)
    \/ \E t \in Threads, r \in CpuReadings, ts \in NsReadings :
          CpuTry(t, TRUE, r, ts)
    \/ \E t \in Threads : CpuRun(t, 49)
    \/ StatusMouse
    \/ StatusCpu
    \/ StatusAudio
    \/ GenerateCheck(1)
    \/ GetEntropyPool
    \/ \E ts \in [ 1..MaxCount -> NsReadings ] : GenerateMix(ts)

SpecTest == Init /\ [][NextTest]_vars

\* C12: in entropy_rng.py, a generate_random_number() call that follows a
\* get_entropy_status() whose total_samples was at least 50 returns a number
\* without raising.
C12_GeneratesAfterFiftySamples ==
    [][ (/\ variant = "cli"
         /\ ret # None
         /\ Val(ret).op = "get_entropy_status"
         /\ Val(ret).total_samples >= 50)
        => ~(Val(ret').op = "generate" /\ Val(ret').raised # "") ]_vars

\* 50 scheduler samples and no pointer sample: generate_random_number() raised
C12_RaisedAfterFiftySamples ==
    /\ variant = "cli"
    /\ collector.collecting
    /\ Len(collector.cpu_entropy) = 50
    /\ ret # None
    /\ Val(ret).op = "generate"
    /\ Val(ret).raised = "Insufficient entropy"
    /\ Val(ret).at.mouse_samples = 0

-----------------------------------------------------------------------------
(* The history of generated numbers and the snapshot *)

\* generation among every other call of the consumer, over two sessions:
\* the lifecycle calls, the pointer callbacks in runs and one at a time, the
\* sufficiency call, the status call and the generation call
NextHistory ==
    \/ \E include_audio \in BOOLEAN : StartCollection(include_audio)
    \/ StopCollection
    \/ \E l \in listeners, xy \in Coordinates, ts \in NsReadings :
          MouseMoveEnter(l, xy, ts)
    \/ MouseMoveBody
    \/ \E shape \in { <<284, 0>>, <<15, 2>> } : used.sweeps < 2 /\ MouseSweep(shape)
    \/ HasSufficientEntropy
    \/ StatusMouse
    \/ StatusCpu
    \/ StatusAudio
    \/ \E count \in 0..MaxCount : GenerateCheck(count)
    \/ GetEntropyPool
    \/ \E ts \in [ 1..MaxCount -> NsReadings ] : GenerateMix(ts)

SpecHistory == Init /\ [][NextHistory]_vars

\* C15: every step leaves the elements generated_numbers already has in
\* place, and only the step that completes a successful generation call
\* changes generated_numbers at all: a call that raises, start_collection(),
\* stop_collection(), get_entropy_status() and has_sufficient_entropy() leave
\* it as it was.
C15_HistoryIsAppendOnly ==
    [][ /\ Len(generated_numbers') >= Len(generated_numbers)
        /\ SubSeq(generated_numbers', 1, Len(generated_numbers)) = generated_numbers
        /\ (generated_numbers' # generated_numbers)
             => /\ call # None
                /\ Val(call).op = "generate"
                /\ call' = None
                /\ Val(ret').op = "generate"
                /\ Val(ret').raised = "" ]_vars

\* a generation call that raised after a restart left the number of the
\* first session in place
C15_HistoryKeptByFailedCall ==
    /\ Len(generated_numbers) >= 1
    /\ used.starts = 2
    /\ ret # None
    /\ Val(ret).op = "generate"
    /\ Val(ret).raised = "Insufficient entropy"

\* C20: the list a generation call hashes is, source by source, the content
\* its pool had at one instant (the values appended up to then, the most
\* recent 2000 of them, in order), and the numbers returned are computed from
\* that list, whatever the producers appended before the call returned.
C20_SnapshotIsPointInTime ==
    [][ (call # None /\ Val(call).op = "generate" /\ call' = None
           /\ Val(ret').raised = "")
        => LET pool == Val(call).entropy_pool
               appended(tag) ==
                   SelectSeq(collector.entropy_queue, LAMBDA e : e[1] = tag)
               content(h, k) ==
                   [ i \in 1..Min(k, 2000) |-> h[k - Min(k, 2000) + i][2] ]
               instants(h) == { k \in 0..Len(h) : Len(h) - k <= MaxSteps }
               m == appended("mouse")
               c == appended("cpu")
               a == appended("audio")
           IN /\ \E km \in instants(m), kc \in instants(c), ka \in instants(a) :
                    pool = content(m, km) \o content(c, kc) \o content(a, ka)
              /\ \E ts \in [ 1..MaxCount -> NsReadings ] :
                    Val(ret').value = numbers_of(pool, Val(call).count, ts) ]_vars

\* a producer appended between the copy of its pool and the return of the
\* call: the pools are longer than the list that was hashed
C20_AppendedWhileHashing ==
    /\ ret # None
    /\ Val(ret).op = "generate"
    /\ Val(ret).raised = ""
    /\ Val(ret).live_len > Val(ret).pool_len

-----------------------------------------------------------------------------
(* Failures inside the producers *)

\* C21: a pass of collect_cpu_entropy's try block either appends one sample
\* to cpu_entropy or, when a read raised, leaves the collector as it was; in
\* both cases the thread goes on to its next `while self.collecting` test.
C21_FailedReadIsSwallowed ==
    [][ \A t \in Threads :
          (cpu_pc[t] = "try" /\ cpu_pc'[t] # "try")
            => /\ cpu_pc'[t] = "while"
               /\ \/ collector' = collector
                  \/ /\ Len(collector'.cpu_entropy) = Len(collector.cpu_entropy) + 1
                     /\ collector'.mouse_entropy = collector.mouse_entropy
                     /\ collector'.audio_entropy = collector.audio_entropy
                     /\ collector'.collecting = collector.collecting ]_vars

\* one thread went through two passes: one read raised, the other appended
C21_AppendedAroundFailedRead ==
    /\ used.starts = 1
    /\ used.cpu = 2
    /\ cpu_pc[1] = "while"
    /\ collector.collecting
    /\ Len(collector.cpu_entropy) = 1

\* C22: the finally block of an audio thread whose open failed closes no
\* stream.
C22_FailedOpenClosesNothing ==
    [][ \A t \in Threads :
          (audio_pc[t] = "finally" /\ audio_pc'[t] = "done"
             /\ streams[t].state = "unopened")
            => streams' = streams ]_vars

\* with no stop_collection() at all, the stream of the first audio thread is
\* closed under that thread, still in its loop, by the second thread, whose
\* open failed
C22_ClosedAnotherSessionsStream ==
    /\ used.stops = 0
    /\ streams[1].state = "closed"
    /\ audio_pc[1] \in { "while", "read" }
    /\ streams[2].state = "unopened"
    /\ audio_pc[2] = "done"

-----------------------------------------------------------------------------
(* The pointer callback *)

\* C23: a pointer callback that finds collecting False changes nothing; one
\* that finds it True appends exactly one sample to mouse_entropy (below the
\* capacity: one more entry after the old ones), sets last_mouse_activity to
\* the time it read, and leaves the other pools alone, however close it
\* comes to the previous callback.
C23_CallbackAppendsOneSample ==
    [][ /\ (used'.moves = used.moves + 1)
            => /\ collector' = collector
               /\ (callback' # None) <=> collector.collecting
        /\ (callback # None /\ callback' = None
              /\ Len(collector.mouse_entropy) < maxlen)
            => /\ Len(collector'.mouse_entropy) = Len(collector.mouse_entropy) + 1
               /\ SubSeq(collector'.mouse_entropy, 1, Len(collector.mouse_entropy))
                    = collector.mouse_entropy
               /\ collector'.last_mouse_activity = Some(Val(callback).current_time)
               /\ collector'.cpu_entropy = collector.cpu_entropy
               /\ collector'.audio_entropy = collector.audio_entropy ]_vars

\* of two callbacks one appended its sample and the other, arriving after
\* stop_collection() through a listener that is still alive, was dropped
C23_OneAppendedOneDropped ==
    /\ used.moves = 2
    /\ used.stops = 1
    /\ ~collector.collecting
    /\ callback = None
    /\ Len(collector.mouse_entropy) = 1
    /\ collector.last_mouse_activity # None

\* C29: after stop_collection() has returned and until the next
\* start_collection(), no step changes a pool or the activity tracker.
C29_QuietAfterStop ==
    [][ (used.stops >= 1 /\ ~collector.collecting /\ used'.starts = used.starts)
          => /\ collector'.mouse_entropy = collector.mouse_entropy
             /\ collector'.cpu_entropy = collector.cpu_entropy
             /\ collector'.audio_entropy = collector.audio_entropy
             /\ collector'.last_mouse_activity = collector.last_mouse_activity
             /\ collector'.total_active_movement_time
                  = collector.total_active_movement_time ]_vars

\* stop_collection() has returned while a callback that already passed
\* `if self.collecting` has not yet run its body
C29_CallbackPendingAfterStop ==
    /\ used.stops = 1
    /\ ~collector.collecting
    /\ callback # None
    /\ Val(ret).op = "stop_collection"

-----------------------------------------------------------------------------
(* Generation and collection side by side *)

\* C24: no step of a generation call (its sufficiency check, its copies of
\* the pools, its second check and mixing, whether it returns or raises)
\* changes the collector, and a producer step that found collecting set
\* appends its sample whether or not the sufficiency predicate holds.
C24_SufficiencyGatesOnlyGeneration ==
    [][ /\ (used'.calls = used.calls + 1 \/ call' # call)
            => collector' = collector
        /\ (callback # None /\ callback' = None)
            => Len(collector'.entropy_queue) = Len(collector.entropy_queue) + 1
        /\ \A t \in Threads :
              (cpu_pc[t] = "try" /\ cpu_pc'[t] = "while")
                => Len(collector'.entropy_queue) = Len(collector.entropy_queue) + 1
        /\ \A t \in Threads :
              (audio_pc[t] = "read" /\ audio_pc'[t] = "while")
                => Len(collector'.entropy_queue) = Len(collector.entropy_queue) + 1 ]_vars

\* a generation call succeeded, the predicate still holds, and the pointer
\* pool has grown since the call's check
C24_AppendedWhileSufficient ==
    /\ ret # None
    /\ Val(ret).op = "generate"
    /\ Val(ret).raised = ""
    /\ sufficient(collector, clock)
    /\ callback = None
    /\ Len(collector.mouse_entropy) > Val(ret).at.mouse_samples
    /\ Len(collector.cpu_entropy) >= 1

C30_SecondCheckNeverFails ==
    [][ (call # None /\ Val(call).op = "generate" /\ call' = None)
          => /\ Len(Val(call).entropy_pool) >=
                   (IF variant = "gui" THEN min_entropy_samples_gui
                    ELSE min_entropy_samples)
             /\ Val(ret').raised = "" ]_vars

\* a call went through with a list of exactly min_entropy_samples values
C30_PassedAtTheMinimum ==
    /\ variant = "cli"
    /\ ret # None
    /\ Val(ret).op = "generate"
    /\ Val(ret).raised = ""
    /\ Val(ret).pool_len = min_entropy_samples

-----------------------------------------------------------------------------
(* What is hashed *)

\* C25: the number generate_random_number returns is the reduction of the
\* digest of one byte stream: all decimal digits of the time.time_ns()
\* reading, then 4 bytes per sample of the call's list, big-endian, in list
\* order; the list is the pointer samples followed by the scheduler samples,
\* each in insertion order.
C25_HashInputIsTimestampThenSamples ==
    [][ (variant = "cli" /\ call # None /\ Val(call).op = "generate" /\ call' = None
           /\ Val(ret').raised = "")
        => LET pool == Val(call).entropy_pool
               appended(tag) ==
                   SelectSeq(collector.entropy_queue, LAMBDA e : e[1] = tag)
               content(h, k) ==
                   [ i \in 1..Min(k, 2000) |-> h[k - Min(k, 2000) + i][2] ]
               instants(h) == { k \in 0..Len(h) : Len(h) - k <= MaxSteps }
               m == appended("mouse")
               c == appended("cpu")
           IN /\ \E km \in instants(m), kc \in instants(c) :
                    pool = content(m, km) \o content(c, kc)
              /\ \E ts \in NsReadings :
                    LET digits == str_encode(ts)
                        n == Len(digits)
                        stream == digits \o sample_bytes(pool)
                    IN /\ ts \div (10 ^ n) = 0
                       /\ n = 1 \/ digits[1] # 48
                       /\ \A k \in 1..n :
                             digits[k] = 48 + ((ts \div (10 ^ (n - k))) % 10)
                       /\ Len(stream) = n + 4 * Len(pool)
                       /\ \A j \in 1..Len(pool) :
                             LET b == SubSeq(stream, n + 4 * j - 3, n + 4 * j)
                             IN /\ \A k \in 1..4 : b[k] \in 0..255
                                /\ b[1] * 16777216 + b[2] * 65536 + b[3] * 256 + b[4]
                                     = pool[j]
                       /\ Val(ret').value = << reduce_digest(sha256_digest(stream)) >>
                       /\ Val(ret').value = << mix(ts, pool) >> ]_vars

\* two calls with the same time.time_ns() reading and the same pools (the
\* only pointer callback came before the first call) returned the same number
C25_SameInputsSameNumber ==
    /\ variant = "cli"
    /\ used.calls = 2
    /\ used.moves = 1
    /\ used.cpu = 0
    /\ call = None
    /\ Len(generated_numbers) = 2
    /\ generated_numbers[1] = generated_numbers[2]
    /\ Val(ret).live_len = Val(ret).pool_len

\* C26: the numbers of one generate_random_numbers call are all computed
\* from one list and one timestamp T: the i-th (i from 0) is the reduction of
\* the digest of str(T + i), str(i) and the bytes of (s ^ i ^ j).
C26_OneTimestampPerBatch ==
    [][ (variant = "gui" /\ call # None /\ Val(call).op = "generate" /\ call' = None
           /\ Val(ret').raised = "")
        => \E T \in BatchReadings :
              \A i \in 1..Val(call).count :
                 Val(ret').value[i] = mix_indexed(T, i - 1, Val(call).entropy_pool) ]_vars

\* a batch of two numbers, on pools that have not changed since, that no
\* single timestamp explains
C26_BatchOfTwoTimestamps ==
    /\ variant = "gui"
    /\ ret # None
    /\ Val(ret).op = "generate"
    /\ Val(ret).raised = ""
    /\ Val(ret).count = 2
    /\ Val(ret).live_len = Val(ret).pool_len
    /\ \A T \in BatchReadings :
          \E i \in 1..2 :
             Val(ret).value[i] # mix_indexed(T, i - 1, get_entropy_pool_gui(collector))

\* C28: within one session, a has_sufficient_entropy() call that follows a
\* call that returned True returns True.
C28_SufficiencyIsStable ==
    [][ (/\ ret # None
         /\ Val(ret).op = "has_sufficient_entropy"
         /\ Val(ret).value
         /\ used'.calls = used.calls + 1
         /\ used'.starts = used.starts
         /\ Val(ret').op = "has_sufficient_entropy")
        => Val(ret').value ]_vars

\* the second call of a session returns False with 300 samples in the pool:
\* 28 s are accumulated and the last pointer event is 3 s old, no longer
\* counted, where up to 2 s after that event the duration read 30 s
C28_SufficiencyLapsed ==
    /\ variant = "cli"
    /\ used.starts = 1
    /\ used.calls = 2
    /\ ret # None
    /\ Val(ret).op = "has_sufficient_entropy"
    /\ ~Val(ret).value
    /\ Val(ret).at.mouse_samples >= min_mouse_samples
    /\ Val(ret).at.mouse_duration = 28
    /\ collector.last_mouse_activity # None
    /\ clock - Val(collector.last_mouse_activity) = 3

====
